---- MODULE Spec2Model ----
(***************************************************************************)
(* Model of jd4/case.py: CaseBase.judge, the verdict classification at its *)
(* end, and LegacyCase.do_stdin / do_stdout.  One judging run is modelled  *)
(* as the judge coroutine, the execute task (the sandboxed process), the   *)
(* two worker-pool jobs (stdin feeder, stdout comparator) and the two      *)
(* event-loop tasks (capped stderr reader, resource monitor).              *)
(***************************************************************************)
EXTENDS Integers, FiniteSets, Sequences, TLC

\* ---- bounds of the model ----
MaxLimit == 1        \* time/memory limits range over 1..MaxLimit
MaxUsage == 2        \* reported time/memory usage ranges over 0..MaxUsage
MaxScore == 1        \* configured score ranges over 0..MaxScore
MaxExit  == 1        \* exit statuses range over 0..MaxExit (0 = clean exit)
InputLen == 2        \* chunks of input the feeder has to write
PipeCap  == 1        \* chunks the stdin pipe buffers before a write blocks
MaxStderrWrites == 2 \* writes to stderr the sandboxed program makes at most
MaxRuns == 2         \* concurrent runs of judge on one event loop
PoolWorkers == 2     \* max_workers of the loop's default executor
MaxLines == 2        \* record lines of a config.ini, after its count line
MaxSrcLen == 3       \* bytes of a source given to dos2unix

\* ---- program constants ----
CHUNK_SIZE == 32768
MAX_STDERR_SIZE == 8192
PROCESS_LIMIT == 64
DEFAULT_MEM_KB == 262144

STATUS_ACCEPTED              == "ACCEPTED"
STATUS_WRONG_ANSWER          == "WRONG_ANSWER"
STATUS_RUNTIME_ERROR         == "RUNTIME_ERROR"
STATUS_TIME_LIMIT_EXCEEDED   == "TIME_LIMIT_EXCEEDED"
STATUS_MEMORY_LIMIT_EXCEEDED == "MEMORY_LIMIT_EXCEEDED"

Statuses ==
  { STATUS_ACCEPTED, STATUS_WRONG_ANSWER, STATUS_RUNTIME_ERROR,
    STATUS_TIME_LIMIT_EXCEEDED, STATUS_MEMORY_LIMIT_EXCEEDED }

\* the three named pipes of a run, and the files judge creates in in_dir
Pipes == { "stdin", "stdout", "stderr" }
Files == Pipes \cup { "cgroup" }

\* the four auxiliary activities gathered by judge
Aux == { "do_stdin", "do_stdout", "read_pipe", "wait_cgroup" }

NoVerdict == [ status |-> "none" ]

VARIABLES
  time_limit_ns,        \* self.time_limit_ns
  memory_limit_bytes,   \* self.memory_limit_bytes
  score,                \* self.score
  pc,                   \* position of the judge coroutine
  in_dir,               \* names present in sandbox.in_dir
  created,              \* the names judge has created in in_dir
  cgroup_sock,          \* "none" | "listening" | "closed"
  exec_pc,              \* position of the execute task / sandboxed process
  exit_status,          \* result of the execute task
  execute_status,       \* judge's local: the awaited result of execute_task
  child_end,            \* per pipe: the sandboxed process's end
  aux_end,              \* per pipe: the orchestrator-side end
  connected,            \* the sandboxed side has connected to the socket
  stdin_pc,             \* position of do_stdin
  stdin_written,        \* chunks written by the feeder
  stdin_buf,            \* chunks buffered in the stdin pipe
  stdin_read,           \* chunks the sandboxed program has read
  broken_pipe,          \* do_stdin caught BrokenPipeError
  stdout_pc,            \* position of do_stdout
  correct,              \* result of do_stdout
  stderr_pc,            \* position of read_pipe
  stderr_cap,           \* the size argument read_pipe was called with
  stderr_sent,          \* bytes the sandboxed program wrote to stderr
  stderr_writes,        \* number of writes to stderr it made
  stderr_buf,           \* bytes in the stderr pipe, not yet read
  stderr,               \* bytes read_pipe has captured: its result
  cgroup_pc,            \* position of wait_cgroup
  usage,                \* result of wait_cgroup: <<time, memory>>
  killed,               \* the monitor terminated the process on a breach
  result,               \* the verdict judge returned, or NoVerdict
  raised_by             \* the activity whose error judge raised, or "none"

caseVars  == << time_limit_ns, memory_limit_bytes, score >>
judgeVars == << pc, in_dir, created, cgroup_sock, execute_status, result, raised_by >>
execVars  == << exec_pc, exit_status, child_end, connected, stdin_read >>
stdinVars == << stdin_pc, stdin_written, broken_pipe >>
outVars   == << stdout_pc, correct >>
monVars   == << cgroup_pc, usage, killed >>
errData   == << stderr_sent, stderr_writes, stderr_buf, stderr >>

\* the variables of one judging run
mainVars == << caseVars, judgeVars, execVars, aux_end, stdin_buf, stdinVars,
               outVars, stderr_pc, stderr_cap, errData, monVars >>

\* Several runs of judge on one event loop, which share the default
\* executor of the loop (run_in_executor(None, ...), lines 48-49)
VARIABLES
  p_pc,                 \* per run: position of judge
  p_exec,               \* per run: position of the execute task
  p_opened,             \* per run: the pipe ends the sandboxed side opened
  p_job,                \* per run and job: state of the worker-pool job
  p_queue               \* the work queue of the executor, first in first out

poolVars == << p_pc, p_exec, p_opened, p_job, p_queue >>

\* read_legacy_cases(file): the archive, the generator and its consumer
VARIABLES
  g_pc,                 \* state of the generator
  g_names,              \* zip_file.namelist()
  g_count,              \* num_cases, once the first line has been read
  g_lines,              \* the lines of config.ini, each a tuple of columns
  g_idx,                \* record lines consumed
  g_cases,              \* the cases yielded so far
  g_err,                \* the error the generator raised
  g_judged              \* cases the consumer has judged

archVars == << g_pc, g_names, g_count, g_lines, g_idx, g_cases, g_err,
               g_judged >>

\* dos2unix(src, dst), applied to a source and then to its own output
VARIABLES
  d_pc,                 \* "idle" | "pass1" | "pass2" | "done"
  d_src,                \* the bytes of the source
  d_in,                 \* the stream being read in the current pass
  d_pos,                \* bytes of d_in read so far
  d_out,                \* the bytes written to dst in the current pass
  d_first,              \* the output of the first pass
  d_cr_chunk            \* a chunk made only of carriage returns was read

d2uVars == << d_pc, d_src, d_in, d_pos, d_out, d_first, d_cr_chunk >>

subVars == << poolVars, archVars, d2uVars >>

vars == << mainVars, subVars >>

\* the values of the variables of a part of the model that is not running
PoolIdle ==
  /\ p_pc = << >> /\ p_exec = << >> /\ p_opened = << >>
  /\ p_job = << >> /\ p_queue = << >>

ArchIdle ==
  /\ g_pc = "idle" /\ g_names = << >> /\ g_count = 0 /\ g_lines = << >>
  /\ g_idx = 0 /\ g_cases = << >> /\ g_err = "none" /\ g_judged = 0

D2uIdle ==
  /\ d_pc = "idle" /\ d_src = << >> /\ d_in = << >> /\ d_pos = 0
  /\ d_out = << >> /\ d_first = << >> /\ d_cr_chunk = FALSE

\* ---------------------------------------------------------------------------
\* The verdict classification (judge, lines 59-74)
\* ---------------------------------------------------------------------------

\* mutant: the time limit is tested before the memory limit
ClassifyTimeFirst(es, ok, t, m, tl, ml, sc) ==
  IF t >= tl THEN [ status |-> STATUS_TIME_LIMIT_EXCEEDED, score |-> 0 ]
  ELSE IF m >= ml THEN [ status |-> STATUS_MEMORY_LIMIT_EXCEEDED, score |-> 0 ]
  ELSE IF es # 0 THEN [ status |-> STATUS_RUNTIME_ERROR, score |-> 0 ]
  ELSE IF ~ok THEN [ status |-> STATUS_WRONG_ANSWER, score |-> 0 ]
  ELSE [ status |-> STATUS_ACCEPTED, score |-> sc ]

\* mutant: the limits are compared with > instead of >=
ClassifyStrict(es, ok, t, m, tl, ml, sc) ==
  IF m > ml THEN [ status |-> STATUS_MEMORY_LIMIT_EXCEEDED, score |-> 0 ]
  ELSE IF t > tl THEN [ status |-> STATUS_TIME_LIMIT_EXCEEDED, score |-> 0 ]
  ELSE IF es # 0 THEN [ status |-> STATUS_RUNTIME_ERROR, score |-> 0 ]
  ELSE IF ~ok THEN [ status |-> STATUS_WRONG_ANSWER, score |-> 0 ]
  ELSE [ status |-> STATUS_ACCEPTED, score |-> sc ]

\* mutant: a wrong answer keeps the configured score
ClassifyScoreKept(es, ok, t, m, tl, ml, sc) ==
  IF m >= ml THEN [ status |-> STATUS_MEMORY_LIMIT_EXCEEDED, score |-> 0 ]
  ELSE IF t >= tl THEN [ status |-> STATUS_TIME_LIMIT_EXCEEDED, score |-> 0 ]
  ELSE IF es # 0 THEN [ status |-> STATUS_RUNTIME_ERROR, score |-> 0 ]
  ELSE IF ~ok THEN [ status |-> STATUS_WRONG_ANSWER, score |-> sc ]
  ELSE [ status |-> STATUS_ACCEPTED, score |-> sc ]

\* mutant: the exit status is tested before the limits
ClassifyExitFirst(es, ok, t, m, tl, ml, sc) ==
  IF es # 0 THEN [ status |-> STATUS_RUNTIME_ERROR, score |-> 0 ]
  ELSE IF m >= ml THEN [ status |-> STATUS_MEMORY_LIMIT_EXCEEDED, score |-> 0 ]
  ELSE IF t >= tl THEN [ status |-> STATUS_TIME_LIMIT_EXCEEDED, score |-> 0 ]
  ELSE IF ~ok THEN [ status |-> STATUS_WRONG_ANSWER, score |-> 0 ]
  ELSE [ status |-> STATUS_ACCEPTED, score |-> sc ]

\* es: execute_status, ok: correct, t: time_usage_ns, m: memory_usage_bytes,
\* tl: self.time_limit_ns, ml: self.memory_limit_bytes, sc: self.score
Classify(es, ok, t, m, tl, ml, sc) ==
  IF m >= ml THEN [ status |-> STATUS_MEMORY_LIMIT_EXCEEDED, score |-> 0 ]
  ELSE IF t >= tl THEN [ status |-> STATUS_TIME_LIMIT_EXCEEDED, score |-> 0 ]
  ELSE IF es # 0 THEN [ status |-> STATUS_RUNTIME_ERROR, score |-> 0 ]
  ELSE IF ~ok THEN [ status |-> STATUS_WRONG_ANSWER, score |-> 0 ]
  ELSE [ status |-> STATUS_ACCEPTED, score |-> sc ]

\* ---------------------------------------------------------------------------
\* Initial state: a case has been constructed, judge has been called
\* ---------------------------------------------------------------------------

Init ==
  /\ time_limit_ns \in 1..MaxLimit
  /\ memory_limit_bytes \in 1..MaxLimit
  /\ score \in 0..MaxScore
  /\ pc = "install"
  /\ in_dir \in SUBSET Files
  /\ created = {}
  /\ cgroup_sock = "none"
  /\ exec_pc = "none"
  /\ exit_status = 0
  /\ execute_status = 0
  /\ child_end = [ p \in Pipes |-> "no" ]
  /\ aux_end = [ p \in Pipes |-> "no" ]
  /\ connected = FALSE
  /\ stdin_pc = "none"
  /\ stdin_written = 0
  /\ stdin_buf = 0
  /\ stdin_read = 0
  /\ broken_pipe = FALSE
  /\ stdout_pc = "none"
  /\ correct = FALSE
  /\ stderr_pc = "none"
  /\ stderr_cap = 0
  /\ stderr_sent = 0
  /\ stderr_writes = 0
  /\ stderr_buf = 0
  /\ stderr = 0
  /\ cgroup_pc = "none"
  /\ usage = << 0, 0 >>
  /\ killed = FALSE
  /\ result = NoVerdict
  /\ raised_by = "none"
  /\ PoolIdle /\ ArchIdle /\ D2uIdle

\* ---------------------------------------------------------------------------
\* The judge coroutine (CaseBase.judge, lines 29-74)
\* ---------------------------------------------------------------------------

\* the event loop runs other tasks only while judge is suspended or has ended
LoopFree == pc \in { "await_execute", "await_others", "returned", "raised" }

Concluded == pc \in { "returned", "raised" }

\* line 31: executable = await package.install(sandbox); may raise
Install ==
  /\ pc = "install"
  /\ \/ pc' = "mkfifo_stdin" /\ raised_by' = raised_by
     \/ pc' = "raised" /\ raised_by' = "install"
  /\ UNCHANGED << subVars, stderr_cap, errData, caseVars, in_dir, created, cgroup_sock, execute_status, result,
                  execVars, aux_end, stdin_buf, stdinVars, outVars,
                  stderr_pc, monVars >>

\* mutant: an existing name is tolerated and used as the pipe
MkfifoExistOk(p, next) ==
  /\ pc = "mkfifo_" \o p
  /\ pc' = next /\ raised_by' = raised_by
  /\ in_dir' = in_dir \cup { p }
  /\ created' = IF p \in in_dir THEN created ELSE created \cup { p }
  /\ UNCHANGED << subVars, stderr_cap, errData, caseVars, cgroup_sock, execute_status, result,
                  execVars, aux_end, stdin_buf, stdinVars, outVars,
                  stderr_pc, monVars >>

\* lines 32-37: mkfifo(path) raises FileExistsError when the name exists
Mkfifo(p, next) ==
  /\ pc = "mkfifo_" \o p
  /\ IF p \in in_dir
       THEN /\ pc' = "raised" /\ raised_by' = "mkfifo"
            /\ in_dir' = in_dir /\ created' = created
       ELSE /\ pc' = next /\ raised_by' = raised_by
            /\ in_dir' = in_dir \cup { p } /\ created' = created \cup { p }
  /\ UNCHANGED << subVars, stderr_cap, errData, caseVars, cgroup_sock, execute_status, result,
                  execVars, aux_end, stdin_buf, stdinVars, outVars,
                  stderr_pc, monVars >>

\* lines 38-40: socket(), bind (fails when the path exists), listen; an
\* error inside the with block closes the socket on the way out
BindListen ==
  /\ pc = "socket"
  /\ IF "cgroup" \in in_dir
       THEN /\ pc' = "raised" /\ raised_by' = "bind"
            /\ cgroup_sock' = "closed" /\ in_dir' = in_dir
            /\ created' = created
       ELSE /\ pc' = "create_execute" /\ raised_by' = raised_by
            /\ cgroup_sock' = "listening" /\ in_dir' = in_dir \cup { "cgroup" }
            /\ created' = created \cup { "cgroup" }
  /\ UNCHANGED << subVars, stderr_cap, errData, caseVars, execute_status, result,
                  execVars, aux_end, stdin_buf, stdinVars, outVars,
                  stderr_pc, monVars >>

\* mutant: the execute task is not scheduled before the auxiliary tasks
CreateExecuteTaskLate ==
  /\ pc = "create_execute"
  /\ pc' = "gather"
  /\ UNCHANGED << subVars, stderr_cap, errData, caseVars, in_dir, created, cgroup_sock, execute_status, result,
                  raised_by, execVars, aux_end, stdin_buf, stdinVars,
                  outVars, stderr_pc, monVars >>

\* lines 41-46: execute_task = loop.create_task(executable.execute(...))
CreateExecuteTask ==
  /\ pc = "create_execute"
  /\ pc' = "gather"
  /\ exec_pc' = "scheduled"
  /\ UNCHANGED << subVars, stderr_cap, errData, caseVars, in_dir, created, cgroup_sock, execute_status, result,
                  raised_by, exit_status, child_end, connected, stdin_read,
                  aux_end, stdin_buf, stdinVars, outVars, stderr_pc, monVars >>

\* mutant: read_pipe is given the copy chunk size instead of the stderr cap
GatherWrongCap ==
  /\ pc = "gather"
  /\ pc' = "await_execute"
  /\ stdin_pc' = "queued"
  /\ stdout_pc' = "queued"
  /\ stderr_pc' = "scheduled"
  /\ stderr_cap' = CHUNK_SIZE
  /\ cgroup_pc' = "scheduled"
  /\ UNCHANGED << subVars, errData, caseVars, in_dir, created, cgroup_sock, execute_status, result,
                  raised_by, execVars, aux_end, stdin_buf, stdin_written,
                  broken_pipe, correct, usage, killed >>

\* lines 47-55: the two worker-pool jobs are submitted, the two coroutines
\* (read_pipe with the cap MAX_STDERR_SIZE, wait_cgroup) are wrapped into
\* tasks, and all four are gathered
Gather ==
  /\ pc = "gather"
  /\ pc' = "await_execute"
  /\ stdin_pc' = "queued"
  /\ stdout_pc' = "queued"
  /\ stderr_pc' = "scheduled"
  /\ stderr_cap' = MAX_STDERR_SIZE
  /\ cgroup_pc' = "scheduled"
  /\ UNCHANGED << subVars, errData, caseVars, in_dir, created, cgroup_sock, execute_status, result,
                  raised_by, execVars, aux_end, stdin_buf, stdin_written,
                  broken_pipe, correct, usage, killed >>

\* line 56: execute_status = await execute_task; an error of the task is
\* raised here and leaves the with block, closing the socket
AwaitExecute ==
  /\ pc = "await_execute"
  /\ exec_pc \in { "exited", "failed" }
  /\ IF exec_pc = "failed"
       THEN /\ pc' = "raised" /\ raised_by' = "execute"
            /\ cgroup_sock' = "closed"
            /\ execute_status' = execute_status
       ELSE /\ pc' = "await_others" /\ raised_by' = raised_by
            /\ cgroup_sock' = cgroup_sock
            /\ execute_status' = exit_status
  /\ UNCHANGED << subVars, stderr_cap, errData, caseVars, in_dir, created, result, execVars, aux_end, stdin_buf,
                  stdinVars, outVars, stderr_pc, monVars >>

AuxPc(a) ==
  CASE a = "do_stdin"    -> stdin_pc
    [] a = "do_stdout"   -> stdout_pc
    [] a = "read_pipe"   -> stderr_pc
    [] a = "wait_cgroup" -> cgroup_pc

\* mutant: gather collects the errors of its children instead of raising
AwaitOthersSwallow ==
  /\ pc = "await_others"
  /\ \A a \in Aux : AuxPc(a) \in { "done", "failed" }
  /\ pc' = "classify" /\ raised_by' = raised_by
  /\ cgroup_sock' = "closed"
  /\ UNCHANGED << subVars, stderr_cap, errData, caseVars, in_dir, created, execute_status, result, execVars,
                  aux_end, stdin_buf, stdinVars, outVars, stderr_pc, monVars >>

\* lines 57-58: await others_task.  gather (without return_exceptions)
\* raises the error of a failed child as soon as it has one, while the
\* other children keep running; it yields the results once all four are
\* done.  Either way the with block is left and the socket closed.
AwaitOthers ==
  /\ pc = "await_others"
  /\ \/ \E a \in Aux :
          /\ AuxPc(a) = "failed"
          /\ pc' = "raised" /\ raised_by' = a
     \/ /\ \A a \in Aux : AuxPc(a) = "done"
        /\ pc' = "classify" /\ raised_by' = raised_by
  /\ cgroup_sock' = "closed"
  /\ UNCHANGED << subVars, stderr_cap, errData, caseVars, in_dir, created, execute_status, result, execVars,
                  aux_end, stdin_buf, stdinVars, outVars, stderr_pc, monVars >>

\* lines 59-74: classify and return the verdict
ClassifyAndReturn ==
  /\ pc = "classify"
  /\ pc' = "returned"
  /\ result' = LET v == Classify(execute_status, correct, usage[1], usage[2],
                                 time_limit_ns, memory_limit_bytes, score)
               IN [ status |-> v.status, score |-> v.score,
                    time_usage_ns |-> usage[1],
                    memory_usage_bytes |-> usage[2],
                    stderr |-> stderr ]
  /\ UNCHANGED << subVars, stderr_cap, errData, caseVars, in_dir, created, cgroup_sock, execute_status, raised_by,
                  execVars, aux_end, stdin_buf, stdinVars, outVars,
                  stderr_pc, monVars >>

\* ---------------------------------------------------------------------------
\* The execute task: executable.execute(sandbox, stdin_file, stdout_file,
\* stderr_file, cgroup_file) and the sandboxed process it runs
\* ---------------------------------------------------------------------------

\* the process's pipe ends after it is gone: an open end is closed; an open()
\* still blocked without a peer never happened
ChildEndsClosed ==
  [ p \in Pipes |->
      IF child_end[p] = "open" THEN "closed"
      ELSE IF child_end[p] = "opening"
        THEN (IF aux_end[p] # "no" THEN "closed" ELSE "no")
        ELSE child_end[p] ]

\* the task starts to run once the event loop gets control; the sandboxed
\* side begins with its stdin, or never opens it at all
ExecStart ==
  /\ exec_pc = "scheduled"
  /\ LoopFree
  /\ \/ /\ exec_pc' = "open_stdin"
        /\ child_end' = [ child_end EXCEPT !["stdin"] = "opening" ]
     \/ /\ exec_pc' = "open_stdout"
        /\ child_end' = [ child_end EXCEPT !["stdout"] = "opening" ]
  /\ UNCHANGED << subVars, stderr_cap, errData, caseVars, judgeVars, exit_status, connected, stdin_read,
                  aux_end, stdin_buf, stdinVars, outVars, stderr_pc, monVars >>

\* a blocking open of a named pipe returns once the peer has arrived
ExecOpened(p, next, q) ==
  /\ exec_pc = "open_" \o p
  /\ aux_end[p] # "no"
  /\ exec_pc' = next
  /\ child_end' = IF q = "none"
                    THEN [ child_end EXCEPT ![p] = "open" ]
                    ELSE [ child_end EXCEPT ![p] = "open", ![q] = "opening" ]
  /\ UNCHANGED << subVars, stderr_cap, errData, caseVars, judgeVars, exit_status, connected, stdin_read,
                  aux_end, stdin_buf, stdinVars, outVars, stderr_pc, monVars >>

\* the sandboxed side connects to the control socket /in/cgroup
ExecConnect ==
  /\ exec_pc = "connect"
  /\ cgroup_sock = "listening"
  /\ exec_pc' = "running"
  /\ connected' = TRUE
  /\ UNCHANGED << subVars, stderr_cap, errData, caseVars, judgeVars, exit_status, child_end, stdin_read,
                  aux_end, stdin_buf, stdinVars, outVars, stderr_pc, monVars >>

\* the program reads a chunk of its input
ChildRead ==
  /\ exec_pc = "running"
  /\ child_end["stdin"] = "open"
  /\ stdin_buf > 0
  /\ stdin_buf' = stdin_buf - 1
  /\ stdin_read' = stdin_read + 1
  /\ UNCHANGED << subVars, stderr_cap, errData, caseVars, judgeVars, exec_pc, exit_status, child_end,
                  connected, aux_end, stdinVars, outVars, stderr_pc, monVars >>

\* the size of one write to stderr: one write stays under the cap of the
\* reader, two writes exceed it
StderrWriteSize == MAX_STDERR_SIZE - 1

\* the program writes to its stderr; the write waits for room in the pipe
ChildWriteStderr ==
  /\ exec_pc = "running"
  /\ child_end["stderr"] = "open"
  /\ aux_end["stderr"] # "closed"
  /\ stderr_writes < MaxStderrWrites
  /\ stderr_buf = 0
  /\ stderr_buf' = StderrWriteSize
  /\ stderr_sent' = stderr_sent + StderrWriteSize
  /\ stderr_writes' = stderr_writes + 1
  /\ UNCHANGED << subVars, stderr_cap, stderr, caseVars, judgeVars, execVars, aux_end,
                  stdin_buf, stdinVars, outVars, stderr_pc, monVars >>

\* the program closes its stdin while it keeps running
ChildCloseStdin ==
  /\ exec_pc = "running"
  /\ child_end["stdin"] = "open"
  /\ child_end' = [ child_end EXCEPT !["stdin"] = "closed" ]
  /\ UNCHANGED << subVars, stderr_cap, errData, caseVars, judgeVars, exec_pc, exit_status, connected,
                  stdin_read, aux_end, stdin_buf, stdinVars, outVars,
                  stderr_pc, monVars >>

\* the program exits; execute returns its exit status
ChildExit ==
  /\ exec_pc = "running"
  /\ exec_pc' = "exited"
  /\ exit_status' \in 0..MaxExit
  /\ child_end' = ChildEndsClosed
  /\ UNCHANGED << subVars, stderr_cap, errData, caseVars, judgeVars, connected, stdin_read, aux_end,
                  stdin_buf, stdinVars, outVars, stderr_pc, monVars >>

\* the execute call fails with an error
ExecFail ==
  /\ exec_pc \in { "open_stdin", "open_stdout", "open_stderr", "connect",
                   "running" }
  /\ exec_pc' = "failed"
  /\ child_end' = ChildEndsClosed
  /\ UNCHANGED << subVars, stderr_cap, errData, caseVars, judgeVars, exit_status, connected, stdin_read,
                  aux_end, stdin_buf, stdinVars, outVars, stderr_pc, monVars >>

\* ---------------------------------------------------------------------------
\* The input feeder: LegacyCase.do_stdin with dos2unix (lines 76-82, 90-95),
\* run by a worker of the pool
\* ---------------------------------------------------------------------------

\* line 92: a worker picks the job up: open_input(), then open(stdin_file,
\* 'wb'), which blocks until the pipe has a reader
StdinStart ==
  /\ stdin_pc = "queued"
  /\ stdin_pc' = "opening"
  /\ aux_end' = [ aux_end EXCEPT !["stdin"] = "opening" ]
  /\ UNCHANGED << subVars, stderr_cap, errData, caseVars, judgeVars, execVars, stdin_buf, stdin_written,
                  broken_pipe, outVars, stderr_pc, monVars >>

StdinOpened ==
  /\ stdin_pc = "opening"
  /\ child_end["stdin"] # "no"
  /\ stdin_pc' = "writing"
  /\ aux_end' = [ aux_end EXCEPT !["stdin"] = "open" ]
  /\ UNCHANGED << subVars, stderr_cap, errData, caseVars, judgeVars, execVars, stdin_buf, stdin_written,
                  broken_pipe, outVars, stderr_pc, monVars >>

\* lines 77-82: one chunk is read, stripped and written; the write blocks
\* while the pipe is full
StdinWrite ==
  /\ stdin_pc = "writing"
  /\ stdin_written < InputLen
  /\ child_end["stdin"] = "open"
  /\ stdin_buf < PipeCap
  /\ stdin_written' = stdin_written + 1
  /\ stdin_buf' = stdin_buf + 1
  /\ UNCHANGED << subVars, stderr_cap, errData, caseVars, judgeVars, execVars, aux_end, stdin_pc,
                  broken_pipe, outVars, stderr_pc, monVars >>

\* mutant: the BrokenPipeError is not caught
StdinBrokenPipeUncaught ==
  /\ stdin_pc = "writing"
  /\ stdin_written < InputLen
  /\ child_end["stdin"] = "closed"
  /\ stdin_pc' = "failed"
  /\ broken_pipe' = TRUE
  /\ aux_end' = [ aux_end EXCEPT !["stdin"] = "closed" ]
  /\ UNCHANGED << subVars, stderr_cap, errData, caseVars, judgeVars, execVars, stdin_buf, stdin_written,
                  outVars, stderr_pc, monVars >>

\* lines 91-95: writing to a pipe whose reader is gone raises
\* BrokenPipeError, which do_stdin catches: it returns normally
StdinBrokenPipe ==
  /\ stdin_pc = "writing"
  /\ stdin_written < InputLen
  /\ child_end["stdin"] = "closed"
  /\ stdin_pc' = "done"
  /\ broken_pipe' = TRUE
  /\ aux_end' = [ aux_end EXCEPT !["stdin"] = "closed" ]
  /\ UNCHANGED << subVars, stderr_cap, errData, caseVars, judgeVars, execVars, stdin_buf, stdin_written,
                  outVars, stderr_pc, monVars >>

\* lines 79-80, 92: end of input; the with block closes both streams
StdinClose ==
  /\ stdin_pc = "writing"
  /\ stdin_written = InputLen
  /\ stdin_pc' = "done"
  /\ aux_end' = [ aux_end EXCEPT !["stdin"] = "closed" ]
  /\ UNCHANGED << subVars, stderr_cap, errData, caseVars, judgeVars, execVars, stdin_buf, stdin_written,
                  broken_pipe, outVars, stderr_pc, monVars >>

\* any other error (open_input() or src.read() raising) is not caught
StdinFail ==
  /\ stdin_pc \in { "queued", "writing" }
  /\ stdin_pc' = "failed"
  /\ aux_end' = IF stdin_pc = "writing"
                  THEN [ aux_end EXCEPT !["stdin"] = "closed" ]
                  ELSE aux_end
  /\ UNCHANGED << subVars, stderr_cap, errData, caseVars, judgeVars, execVars, stdin_buf, stdin_written,
                  broken_pipe, outVars, stderr_pc, monVars >>

\* ---------------------------------------------------------------------------
\* The output comparator: LegacyCase.do_stdout (lines 97-99), run by a
\* worker of the pool
\* ---------------------------------------------------------------------------

\* line 98: open_output(), then open(stdout_file, 'rb'), which blocks until
\* the pipe has a writer
StdoutStart ==
  /\ stdout_pc = "queued"
  /\ stdout_pc' = "opening"
  /\ aux_end' = [ aux_end EXCEPT !["stdout"] = "opening" ]
  /\ UNCHANGED << subVars, stderr_cap, errData, caseVars, judgeVars, execVars, stdin_buf, stdinVars,
                  correct, stderr_pc, monVars >>

StdoutOpened ==
  /\ stdout_pc = "opening"
  /\ child_end["stdout"] # "no"
  /\ stdout_pc' = "comparing"
  /\ aux_end' = [ aux_end EXCEPT !["stdout"] = "open" ]
  /\ UNCHANGED << subVars, stderr_cap, errData, caseVars, judgeVars, execVars, stdin_buf, stdinVars,
                  correct, stderr_pc, monVars >>

\* line 99: compare_stream reads the output to its end and returns a flag
StdoutCompared ==
  /\ stdout_pc = "comparing"
  /\ child_end["stdout"] = "closed"
  /\ stdout_pc' = "done"
  /\ correct' \in BOOLEAN
  /\ aux_end' = [ aux_end EXCEPT !["stdout"] = "closed" ]
  /\ UNCHANGED << subVars, stderr_cap, errData, caseVars, judgeVars, execVars, stdin_buf, stdinVars,
                  stderr_pc, monVars >>

\* open_output() or the comparator fails with an error
StdoutFail ==
  /\ stdout_pc \in { "queued", "comparing" }
  /\ stdout_pc' = "failed"
  /\ aux_end' = IF stdout_pc = "comparing"
                  THEN [ aux_end EXCEPT !["stdout"] = "closed" ]
                  ELSE aux_end
  /\ UNCHANGED << subVars, stderr_cap, errData, caseVars, judgeVars, execVars, stdin_buf, stdinVars,
                  correct, stderr_pc, monVars >>

\* ---------------------------------------------------------------------------
\* The capped stderr reader: read_pipe(stderr_file, MAX_STDERR_SIZE)
\* ---------------------------------------------------------------------------

StderrStart ==
  /\ stderr_pc = "scheduled"
  /\ LoopFree
  /\ stderr_pc' = "opening"
  /\ aux_end' = [ aux_end EXCEPT !["stderr"] = "opening" ]
  /\ UNCHANGED << subVars, stderr_cap, errData, caseVars, judgeVars, execVars, stdin_buf, stdinVars,
                  outVars, monVars >>

StderrOpened ==
  /\ stderr_pc = "opening"
  /\ child_end["stderr"] # "no"
  /\ stderr_pc' = "reading"
  /\ aux_end' = [ aux_end EXCEPT !["stderr"] = "open" ]
  /\ UNCHANGED << subVars, stderr_cap, errData, caseVars, judgeVars, execVars, stdin_buf, stdinVars,
                  outVars, monVars >>

\* what is in the pipe is read: it is kept up to the size asked for, the
\* rest is discarded, so the writer is never left blocked
StderrRead ==
  /\ stderr_pc = "reading"
  /\ stderr_buf > 0
  /\ stderr' = IF stderr + stderr_buf > stderr_cap
                 THEN stderr_cap ELSE stderr + stderr_buf
  /\ stderr_buf' = 0
  /\ UNCHANGED << subVars, stderr_cap, stderr_sent, stderr_writes, stderr_pc,
                  caseVars, judgeVars, execVars, aux_end, stdin_buf,
                  stdinVars, outVars, monVars >>

\* end of stream: read_pipe returns what it captured
StderrDone ==
  /\ stderr_pc = "reading"
  /\ child_end["stderr"] = "closed"
  /\ stderr_buf = 0
  /\ stderr_pc' = "done"
  /\ aux_end' = [ aux_end EXCEPT !["stderr"] = "closed" ]
  /\ UNCHANGED << subVars, stderr_cap, errData, caseVars, judgeVars, execVars, stdin_buf, stdinVars,
                  outVars, monVars >>

StderrFail ==
  /\ stderr_pc = "reading"
  /\ stderr_pc' = "failed"
  /\ aux_end' = [ aux_end EXCEPT !["stderr"] = "closed" ]
  /\ UNCHANGED << subVars, stderr_cap, errData, caseVars, judgeVars, execVars, stdin_buf, stdinVars,
                  outVars, monVars >>

\* ---------------------------------------------------------------------------
\* The resource monitor: wait_cgroup(cgroup_sock, execute_task, limits)
\* ---------------------------------------------------------------------------

Usages == (0..MaxUsage) \X (0..MaxUsage)

CgroupStart ==
  /\ cgroup_pc = "scheduled"
  /\ LoopFree
  /\ cgroup_pc' = "accepting"
  /\ UNCHANGED << subVars, stderr_cap, errData, caseVars, judgeVars, execVars, aux_end, stdin_buf,
                  stdinVars, outVars, stderr_pc, usage, killed >>

\* the connection of the sandboxed side is accepted
CgroupAccept ==
  /\ cgroup_pc = "accepting"
  /\ connected
  /\ cgroup_pc' = "polling"
  /\ UNCHANGED << subVars, stderr_cap, errData, caseVars, judgeVars, execVars, aux_end, stdin_buf,
                  stdinVars, outVars, stderr_pc, usage, killed >>

\* the execute task has completed: the monitor reports the usage
CgroupReturn ==
  /\ cgroup_pc \in { "accepting", "polling" }
  /\ exec_pc \in { "exited", "failed" }
  /\ cgroup_pc' = "done"
  /\ usage' \in Usages
  /\ UNCHANGED << subVars, stderr_cap, errData, caseVars, judgeVars, execVars, aux_end, stdin_buf,
                  stdinVars, outVars, stderr_pc, killed >>

\* a threshold is breached: the monitor terminates the process, whose
\* exit status is abnormal, and reports usage at or above the limit
CgroupBreach ==
  /\ cgroup_pc = "polling"
  /\ exec_pc = "running"
  /\ cgroup_pc' = "done"
  /\ killed' = TRUE
  /\ usage' \in { u \in Usages :
                    u[1] >= time_limit_ns \/ u[2] >= memory_limit_bytes }
  /\ exec_pc' = "exited"
  /\ exit_status' \in 1..MaxExit
  /\ child_end' = ChildEndsClosed
  /\ UNCHANGED << subVars, stderr_cap, errData, caseVars, judgeVars, connected, stdin_read, aux_end,
                  stdin_buf, stdinVars, outVars, stderr_pc >>

\* the monitor fails with an error
CgroupFail ==
  /\ cgroup_pc \in { "accepting", "polling" }
  /\ cgroup_pc' = "failed"
  /\ UNCHANGED << subVars, stderr_cap, errData, caseVars, judgeVars, execVars, aux_end, stdin_buf,
                  stdinVars, outVars, stderr_pc, usage, killed >>

\* ---------------------------------------------------------------------------
\* Specifications
\* ---------------------------------------------------------------------------

Next ==
  \/ Install
  \/ Mkfifo("stdin", "mkfifo_stdout")
  \/ Mkfifo("stdout", "mkfifo_stderr")
  \/ Mkfifo("stderr", "socket")
  \/ BindListen
  \/ CreateExecuteTask
  \/ Gather
  \/ AwaitExecute
  \/ AwaitOthers
  \/ ClassifyAndReturn
  \/ ExecStart
  \/ ExecOpened("stdin", "open_stdout", "stdout")
  \/ ExecOpened("stdout", "open_stderr", "stderr")
  \/ ExecOpened("stderr", "connect", "none")
  \/ ExecConnect
  \/ ChildRead
  \/ ChildWriteStderr
  \/ ChildCloseStdin
  \/ ChildExit
  \/ ExecFail
  \/ StdinStart
  \/ StdinOpened
  \/ StdinWrite
  \/ StdinBrokenPipe
  \/ StdinClose
  \/ StdinFail
  \/ StdoutStart
  \/ StdoutOpened
  \/ StdoutCompared
  \/ StdoutFail
  \/ StderrStart
  \/ StderrOpened
  \/ StderrRead
  \/ StderrDone
  \/ StderrFail
  \/ CgroupStart
  \/ CgroupAccept
  \/ CgroupReturn
  \/ CgroupBreach
  \/ CgroupFail

Spec == Init /\ [][Next]_vars

\* every task that can take a step eventually takes one: the event loop
\* and the worker pool leave no runnable task waiting forever
LiveSpec == Init /\ [][Next]_vars /\ WF_vars(Next)

TypeOK ==
  /\ pc \in { "install", "mkfifo_stdin", "mkfifo_stdout", "mkfifo_stderr",
              "socket", "create_execute", "gather", "await_execute",
              "await_others", "classify", "returned", "raised" }
  /\ in_dir \subseteq Files
  /\ cgroup_sock \in { "none", "listening", "closed" }
  /\ exec_pc \in { "none", "scheduled", "open_stdin", "open_stdout",
                   "open_stderr", "connect", "running", "exited", "failed" }
  /\ exit_status \in 0..MaxExit
  /\ execute_status \in 0..MaxExit
  /\ \A p \in Pipes : /\ child_end[p] \in { "no", "opening", "open", "closed" }
                      /\ aux_end[p] \in { "no", "opening", "open", "closed" }
  /\ stdin_written \in 0..InputLen
  /\ stdin_buf \in 0..PipeCap
  /\ stdin_read \in 0..InputLen
  /\ usage \in Usages
  /\ \A a \in Aux : AuxPc(a) \in { "none", "queued", "scheduled", "opening",
                                   "writing", "comparing", "reading",
                                   "accepting", "polling", "done", "failed" }

\* ---------------------------------------------------------------------------
\* Concurrent runs of judge and the shared worker pool.  Each run is reduced
\* to what takes part in the use of the pool: judge (lines 41-58), its
\* execute task, and its two jobs do_stdin and do_stdout; read_pipe and
\* wait_cgroup run on the event loop and take no worker.
\* ---------------------------------------------------------------------------

\* a fixed single-run state, for the parts of the model that run no judge
MainIdle ==
  /\ time_limit_ns = 1 /\ memory_limit_bytes = 1 /\ score = 0
  /\ pc = "install" /\ in_dir = {} /\ created = {}
  /\ cgroup_sock = "none" /\ exec_pc = "none"
  /\ exit_status = 0 /\ execute_status = 0
  /\ child_end = [ p \in Pipes |-> "no" ]
  /\ aux_end = [ p \in Pipes |-> "no" ]
  /\ connected = FALSE
  /\ stdin_pc = "none" /\ stdin_written = 0 /\ stdin_buf = 0
  /\ stdin_read = 0 /\ broken_pipe = FALSE
  /\ stdout_pc = "none" /\ correct = FALSE
  /\ stderr_pc = "none" /\ stderr_cap = 0 /\ stderr_sent = 0
  /\ stderr_writes = 0 /\ stderr_buf = 0 /\ stderr = 0
  /\ cgroup_pc = "none" /\ usage = << 0, 0 >> /\ killed = FALSE
  /\ result = NoVerdict /\ raised_by = "none"

Runs == 1..MaxRuns
Jobs == { "do_stdin", "do_stdout" }

JobPipe(j) == IF j = "do_stdin" THEN "stdin" ELSE "stdout"

\* the sandboxed side of run r has arrived at its end of the pipe
ChildArrived(r, p) == p \in p_opened[r] \/ p_exec[r] = "open_" \o p

\* job j of run r is being run by a worker and has arrived at the pipe
JobArrived(r, j) == p_job[r][j] \in { "opening", "working", "done" }

\* workers that are running a job
Busy ==
  Cardinality({ rj \in Runs \X Jobs :
                  p_job[rj[1]][rj[2]] \in { "opening", "working" } })

PoolConcluded(r) == p_pc[r] \in { "returned", "raised" }

\* every run is about to be started, or is not started at all
PoolInit ==
  /\ MainIdle /\ ArchIdle /\ D2uIdle
  /\ p_pc \in [ Runs -> { "idle", "absent" } ]
  /\ p_exec = [ r \in Runs |-> "none" ]
  /\ p_opened = [ r \in Runs |-> {} ]
  /\ p_job = [ r \in Runs |-> [ j \in Jobs |-> "none" ] ]
  /\ p_queue = << >>

\* lines 41-55: the execute task is created and the two jobs are submitted
\* to the executor, one after the other, without the loop being yielded
PoolLaunch(r) ==
  /\ p_pc[r] = "idle"
  /\ p_pc' = [ p_pc EXCEPT ![r] = "await_execute" ]
  /\ p_exec' = [ p_exec EXCEPT ![r] = "scheduled" ]
  /\ p_job' = [ p_job EXCEPT ![r] = [ j \in Jobs |-> "queued" ] ]
  /\ p_queue' = p_queue \o << << r, "do_stdin" >>, << r, "do_stdout" >> >>
  /\ UNCHANGED << mainVars, archVars, d2uVars, p_opened >>

\* a free worker takes the first job of the queue; the job begins with the
\* blocking open of its pipe (lines 92, 98)
PoolTake ==
  /\ p_queue # << >>
  /\ Busy < PoolWorkers
  /\ LET rj == Head(p_queue)
     IN p_job' = [ p_job EXCEPT ![rj[1]][rj[2]] = "opening" ]
  /\ p_queue' = Tail(p_queue)
  /\ UNCHANGED << mainVars, archVars, d2uVars, p_pc, p_exec, p_opened >>

PoolExecStart(r) ==
  /\ p_exec[r] = "scheduled"
  /\ p_exec' = [ p_exec EXCEPT ![r] = "open_stdin" ]
  /\ UNCHANGED << mainVars, archVars, d2uVars, p_pc, p_opened, p_job,
                  p_queue >>

PoolExecOpened(r, p, j, next) ==
  /\ p_exec[r] = "open_" \o p
  /\ JobArrived(r, j)
  /\ p_exec' = [ p_exec EXCEPT ![r] = next ]
  /\ p_opened' = [ p_opened EXCEPT ![r] = @ \cup { p } ]
  /\ UNCHANGED << mainVars, archVars, d2uVars, p_pc, p_job, p_queue >>

PoolExecExit(r) ==
  /\ p_exec[r] = "running"
  /\ p_exec' = [ p_exec EXCEPT ![r] = "exited" ]
  /\ UNCHANGED << mainVars, archVars, d2uVars, p_pc, p_opened, p_job,
                  p_queue >>

\* the execute call fails; an open() of the sandboxed side that was still
\* blocked without a peer never happened
PoolExecFail(r) ==
  /\ p_exec[r] \in { "open_stdin", "open_stdout", "running" }
  /\ p_exec' = [ p_exec EXCEPT ![r] = "failed" ]
  /\ p_opened' =
       [ p_opened EXCEPT ![r] =
           @ \cup { JobPipe(j) : j \in { k \in Jobs :
                      /\ p_exec[r] = "open_" \o JobPipe(k)
                      /\ JobArrived(r, k) } } ]
  /\ UNCHANGED << mainVars, archVars, d2uVars, p_pc, p_job, p_queue >>

\* the blocking open of a job returns once the peer has arrived
PoolJobOpened(r, j) ==
  /\ p_job[r][j] = "opening"
  /\ ChildArrived(r, JobPipe(j))
  /\ p_job' = [ p_job EXCEPT ![r][j] = "working" ]
  /\ UNCHANGED << mainVars, archVars, d2uVars, p_pc, p_exec, p_opened,
                  p_queue >>

\* do_stdin has written its input or met a broken pipe: the worker is free
PoolStdinDone(r) ==
  /\ p_job[r]["do_stdin"] = "working"
  /\ p_job' = [ p_job EXCEPT ![r]["do_stdin"] = "done" ]
  /\ UNCHANGED << mainVars, archVars, d2uVars, p_pc, p_exec, p_opened,
                  p_queue >>

\* do_stdout has read the output to its end: the worker is free
PoolStdoutDone(r) ==
  /\ p_job[r]["do_stdout"] = "working"
  /\ p_exec[r] \in { "exited", "failed" }
  /\ p_job' = [ p_job EXCEPT ![r]["do_stdout"] = "done" ]
  /\ UNCHANGED << mainVars, archVars, d2uVars, p_pc, p_exec, p_opened,
                  p_queue >>

\* line 56
PoolAwaitExecute(r) ==
  /\ p_pc[r] = "await_execute"
  /\ p_exec[r] \in { "exited", "failed" }
  /\ p_pc' = [ p_pc EXCEPT ![r] =
                 IF p_exec[r] = "failed" THEN "raised" ELSE "await_others" ]
  /\ UNCHANGED << mainVars, archVars, d2uVars, p_exec, p_opened, p_job,
                  p_queue >>

\* lines 57-58
PoolAwaitOthers(r) ==
  /\ p_pc[r] = "await_others"
  /\ \A j \in Jobs : p_job[r][j] = "done"
  /\ p_pc' = [ p_pc EXCEPT ![r] = "returned" ]
  /\ UNCHANGED << mainVars, archVars, d2uVars, p_exec, p_opened, p_job,
                  p_queue >>

\* the steps the event loop, the workers and the sandboxed programs take
\* whenever they can
PoolProgress ==
  \/ \E r \in Runs : PoolLaunch(r)
  \/ PoolTake
  \/ \E r \in Runs : PoolExecStart(r)
  \/ \E r \in Runs : PoolExecOpened(r, "stdin", "do_stdin", "open_stdout")
  \/ \E r \in Runs : PoolExecOpened(r, "stdout", "do_stdout", "running")
  \/ \E r \in Runs : PoolExecExit(r)
  \/ \E r \in Runs, j \in Jobs : PoolJobOpened(r, j)
  \/ \E r \in Runs : PoolStdinDone(r)
  \/ \E r \in Runs : PoolStdoutDone(r)
  \/ \E r \in Runs : PoolAwaitExecute(r)
  \/ \E r \in Runs : PoolAwaitOthers(r)

PoolNext ==
  \/ PoolProgress
  \/ \E r \in Runs : PoolExecFail(r)

\* a failure of an execute call may or may not happen; every other step
\* that stays possible is eventually taken
PoolSpec == PoolInit /\ [][PoolNext]_vars /\ WF_vars(PoolProgress)

\* ---------------------------------------------------------------------------
\* read_legacy_cases (lines 118-132).  Names and columns are tuples of
\* characters, so that lower() and the parsing of numbers are computed.
\* ---------------------------------------------------------------------------

UpperCase ==
  << "A", "B", "C", "D", "E", "F", "G", "H", "I", "J", "K", "L", "M",
     "N", "O", "P", "Q", "R", "S", "T", "U", "V", "W", "X", "Y", "Z" >>

LowerCase ==
  << "a", "b", "c", "d", "e", "f", "g", "h", "i", "j", "k", "l", "m",
     "n", "o", "p", "q", "r", "s", "t", "u", "v", "w", "x", "y", "z" >>

Digits == << "0", "1", "2", "3", "4", "5", "6", "7", "8", "9" >>

\* str.lower(), on the characters that occur
LowerChar(c) ==
  IF \E i \in DOMAIN UpperCase : UpperCase[i] = c
  THEN LowerCase[CHOOSE i \in DOMAIN UpperCase : UpperCase[i] = c]
  ELSE c

Lower(s) == [ i \in 1..Len(s) |-> LowerChar(s[i]) ]

IsDigit(c) == \E i \in DOMAIN Digits : Digits[i] = c

DigitVal(c) == (CHOOSE i \in DOMAIN Digits : Digits[i] = c) - 1

IsNumeral(s) == Len(s) > 0 /\ \A i \in 1..Len(s) : IsDigit(s[i])

RECURSIVE DecVal(_)
DecVal(s) ==
  IF s = << >> THEN 0
  ELSE DecVal(SubSeq(s, 1, Len(s) - 1)) * 10 + DigitVal(s[Len(s)])

\* the value an exception stands for in the results of the parsers
ParseError == 0 - 1

\* int(s) of a column: a decimal numeral, or ValueError
ParseInt(s) == IF IsNumeral(s) THEN DecVal(s) ELSE ParseError

\* thousandths in a fraction of k digits
Scale(k) == IF k = 0 THEN 1000 ELSE IF k = 1 THEN 100 ELSE IF k = 2 THEN 10 ELSE 1

\* float(s) of a column, in thousandths: digits with at most one point and
\* at most three digits after it, or ValueError
ParseMilli(s) ==
  LET dots == { i \in 1..Len(s) : s[i] = "." }
  IN IF dots = {}
     THEN IF IsNumeral(s) THEN DecVal(s) * 1000 ELSE ParseError
     ELSE IF Cardinality(dots) > 1 THEN ParseError
     ELSE LET d == CHOOSE i \in dots : TRUE
              whole == SubSeq(s, 1, d - 1)
              frac == SubSeq(s, d + 1, Len(s))
          IN IF /\ Len(s) > 1
                /\ Len(frac) <= 3
                /\ \A i \in (1..Len(s)) \ dots : IsDigit(s[i])
             THEN DecVal(whole) * 1000 + DecVal(frac) * Scale(Len(frac))
             ELSE ParseError

\* the thousandths t up to 2000 for which the double product
\* float("t/1000") * 1e9 lies just below the integer t * 10^6
InexactMs == { 1001 + 2 * k : k \in 0..28 }

\* line 86: int(time_sec * 1e9), of a time given in thousandths of a second
TimeNs(ms) == ms * 1000000 - (IF ms \in InexactMs THEN 1 ELSE 0)

\* line 86: int(mem_kb * 1024), of a size given in thousandths of a KB
MemBytes(milli) == (milli * 1024) \div 1000

\* line 120, with the keys left as they are in the archive
CanonicalDictExact(names) ==
  LET keys == { names[i] : i \in DOMAIN names }
  IN [ k \in keys |->
         names[CHOOSE i \in DOMAIN names :
                 /\ names[i] = k
                 /\ \A j \in DOMAIN names : names[j] = k => j <= i] ]

\* line 120: dict((name.lower(), name) for name in namelist()); of two
\* entries with the same key the later one stays
CanonicalDict(names) ==
  LET keys == { Lower(names[i]) : i \in DOMAIN names }
  IN [ k \in keys |->
         names[CHOOSE i \in DOMAIN names :
                 /\ Lower(names[i]) = k
                 /\ \A j \in DOMAIN names : Lower(names[j]) = k => j <= i] ]

ConfigName == << "c", "o", "n", "f", "i", "g", ".", "i", "n", "i" >>
InputDir == << "i", "n", "p", "u", "t", "/" >>
OutputDir == << "o", "u", "t", "p", "u", "t", "/" >>

\* lines 130-131: the keys looked up for a record line
InputKey(line) == InputDir \o Lower(line[1])
OutputKey(line) == OutputDir \o Lower(line[2])

\* lines 121-123: the error of the statements before the loop
HeaderErr(dict, lines) ==
  IF Lower(ConfigName) \notin DOMAIN dict THEN "KeyError"
  ELSE IF lines = << >> THEN "ValueError"
  ELSE IF ParseInt(lines[1][1]) = ParseError THEN "ValueError"
  ELSE "none"

\* lines 125-132: the error of one iteration of the loop
LineErr(dict, line) ==
  IF Len(line) < 4 THEN "ValueError"
  ELSE IF InputKey(line) \notin DOMAIN dict THEN "KeyError"
  ELSE IF OutputKey(line) \notin DOMAIN dict THEN "KeyError"
  ELSE IF ParseMilli(line[3]) = ParseError THEN "ValueError"
  ELSE IF ParseInt(line[4]) = ParseError THEN "ValueError"
  ELSE "none"

\* lines 126-129: mem_kb in bytes, the default when the column is absent or
\* float() rejects it
MemOf(line) ==
  IF Len(line) < 5 THEN DEFAULT_MEM_KB * 1024
  ELSE IF ParseMilli(line[5]) = ParseError THEN DEFAULT_MEM_KB * 1024
  ELSE MemBytes(ParseMilli(line[5]))

\* line 132 and lines 85-88: the case made of a record line
MakeCase(dict, line) ==
  [ open_input |-> dict[InputKey(line)],
    open_output |-> dict[OutputKey(line)],
    time_limit_ns |-> TimeNs(ParseMilli(line[3])),
    memory_limit_bytes |-> MemOf(line),
    process_limit |-> PROCESS_LIMIT,
    score |-> ParseInt(line[4]) ]

\* the archives and manifests taken as inputs
Archives ==
  { << << "c", "o", "n", "f", "i", "g", ".", "i", "n", "i" >>,
       << "i", "n", "p", "u", "t", "/", "a", ".", "t", "x", "t" >>,
       << "o", "u", "t", "p", "u", "t", "/", "b", ".", "t", "x", "t" >> >>,
    << << "C", "o", "n", "f", "i", "g", ".", "I", "N", "I" >>,
       << "I", "N", "P", "U", "T", "/", "A", ".", "T", "X", "T" >>,
       << "O", "u", "t", "p", "u", "t", "/", "B", ".", "t", "x", "t" >> >>,
    << << "c", "o", "n", "f", "i", "g", ".", "i", "n", "i" >>,
       << "i", "n", "p", "u", "t", "/", "a", ".", "t", "x", "t" >> >>,
    << << "i", "n", "p", "u", "t", "/", "a", ".", "t", "x", "t" >>,
       << "o", "u", "t", "p", "u", "t", "/", "b", ".", "t", "x", "t" >> >>,
    << << "c", "o", "n", "f", "i", "g", ".", "i", "n", "i" >>,
       << "i", "n", "p", "u", "t", "/", "a", ".", "t", "x", "t" >>,
       << "I", "n", "p", "u", "t", "/", "A", ".", "t", "x", "t" >>,
       << "o", "u", "t", "p", "u", "t", "/", "b", ".", "t", "x", "t" >> >> }

Records ==
  { << << "a", ".", "t", "x", "t" >>,
       << "b", ".", "t", "x", "t" >>,
       << "1", ".", "0" >>,
       << "1", "0", "0" >> >>,
    << << "A", ".", "T", "X", "T" >>,
       << "B", ".", "t", "x", "t" >>,
       << "1", ".", "0", "0", "1" >>,
       << "1", "0" >>,
       << "6", "4" >> >>,
    << << "a", ".", "t", "x", "t" >>,
       << "b", ".", "t", "x", "t" >>,
       << "0", ".", "5" >>,
       << "5" >>,
       << "x" >> >>,
    << << "a", ".", "t", "x", "t" >>,
       << "b", ".", "t", "x", "t" >>,
       << "1", ".", "0" >> >>,
    << << "c", ".", "t", "x", "t" >>,
       << "b", ".", "t", "x", "t" >>,
       << "1", ".", "0" >>,
       << "1", "0", "0" >> >>,
    << << "a", ".", "t", "x", "t" >>,
       << "b", ".", "t", "x", "t" >>,
       << "x" >>,
       << "1", "0", "0" >> >> }

CountLines == { << c >> : c \in { << "0" >>, << "1" >>, << "2" >>, << "3" >>, << "x" >> } }

Manifests ==
  { << >> } \cup
  { << c >> \o recs : c \in CountLines,
                      recs \in UNION { [ 1..n -> Records ] : n \in 0..MaxLines } }

\* the generator has been created and nothing of its body has run
ArchInit ==
  /\ MainIdle /\ PoolIdle /\ D2uIdle
  /\ g_pc = "fresh"
  /\ g_names \in Archives
  /\ g_lines \in Manifests
  /\ g_count = 0 /\ g_idx = 0 /\ g_cases = << >>
  /\ g_err = "none" /\ g_judged = 0

\* one next() of the generator: the first runs lines 119-123 and then, as
\* every other, the loop of lines 124-132 up to its yield, its end or an
\* exception
GenNext ==
  /\ g_pc \in { "fresh", "running" }
  /\ LET dict == CanonicalDict(g_names)
         hdr == IF g_pc = "fresh" THEN HeaderErr(dict, g_lines) ELSE "none"
     IN IF hdr # "none"
        THEN /\ g_pc' = "failed" /\ g_err' = hdr
             /\ UNCHANGED << g_count, g_idx, g_cases >>
        ELSE LET n == IF g_pc = "fresh" THEN ParseInt(g_lines[1][1])
                      ELSE g_count
             IN /\ g_count' = n
                /\ IF g_idx >= n \/ g_idx + 1 >= Len(g_lines)
                   THEN /\ g_pc' = "done"
                        /\ UNCHANGED << g_idx, g_cases, g_err >>
                   ELSE LET line == g_lines[g_idx + 2]
                            err == LineErr(dict, line)
                        IN IF err # "none"
                           THEN /\ g_pc' = "failed" /\ g_err' = err
                                /\ UNCHANGED << g_idx, g_cases >>
                           ELSE /\ g_pc' = "running"
                                /\ g_idx' = g_idx + 1
                                /\ g_cases' =
                                     Append(g_cases, MakeCase(dict, line))
                                /\ UNCHANGED g_err
  /\ UNCHANGED << mainVars, poolVars, d2uVars, g_names, g_lines, g_judged >>

\* the consumer judges the next case it has received
ConsumerJudge ==
  /\ g_pc \in { "running", "done" }
  /\ g_judged < Len(g_cases)
  /\ g_judged' = g_judged + 1
  /\ UNCHANGED << mainVars, poolVars, d2uVars, g_pc, g_names, g_count,
                  g_lines, g_idx, g_cases, g_err >>

ArchNext == GenNext \/ ConsumerJudge

ArchSpec == ArchInit /\ [][ArchNext]_vars

\* ---------------------------------------------------------------------------
\* dos2unix (lines 76-82), run on a source and then on its own output.  A
\* read returns between one and CHUNK_SIZE of the bytes that are left, and
\* none at the end of the stream.
\* ---------------------------------------------------------------------------

Bytes == { "CR", "LF", "x" }

Sources == UNION { [ 1..n -> Bytes ] : n \in 0..MaxSrcLen }

NotCR(b) == b # "CR"

\* line 81: buf.replace(b'\r', b'')
Replace(buf) == SelectSeq(buf, NotCR)

Min(a, b) == IF a < b THEN a ELSE b

D2uInit ==
  /\ MainIdle /\ PoolIdle /\ ArchIdle
  /\ d_pc = "pass1"
  /\ d_src \in Sources
  /\ d_in = d_src
  /\ d_pos = 0 /\ d_out = << >> /\ d_first = << >> /\ d_cr_chunk = FALSE

\* lines 78-80 when the read returns nothing: the copy is over; its output
\* is then the source of the second run
D2uEof ==
  /\ d_pc \in { "pass1", "pass2" }
  /\ d_pos = Len(d_in)
  /\ IF d_pc = "pass1"
     THEN /\ d_pc' = "pass2"
          /\ d_first' = d_out
          /\ d_in' = d_out
          /\ d_pos' = 0
          /\ d_out' = << >>
     ELSE /\ d_pc' = "done"
          /\ UNCHANGED << d_first, d_in, d_pos, d_out >>
  /\ UNCHANGED << mainVars, poolVars, archVars, d_src, d_cr_chunk >>

\* one iteration with the test of line 79 made after the replace of line 81
D2uStepEarlyBreak ==
  /\ d_pc \in { "pass1", "pass2" }
  /\ d_pos < Len(d_in)
  /\ \E n \in 1..Min(Len(d_in) - d_pos, CHUNK_SIZE) :
       LET buf == Replace(SubSeq(d_in, d_pos + 1, d_pos + n))
       IN IF buf = << >>
          THEN /\ d_pos' = Len(d_in)
               /\ d_cr_chunk' = TRUE
               /\ UNCHANGED d_out
          ELSE /\ d_pos' = d_pos + n
               /\ d_out' = d_out \o buf
               /\ UNCHANGED d_cr_chunk
  /\ UNCHANGED << mainVars, poolVars, archVars, d_pc, d_src, d_in, d_first >>

\* lines 78-82: one iteration that reads a chunk, drops its carriage
\* returns and writes what is left, be it nothing
D2uStep ==
  /\ d_pc \in { "pass1", "pass2" }
  /\ d_pos < Len(d_in)
  /\ \E n \in 1..Min(Len(d_in) - d_pos, CHUNK_SIZE) :
       LET buf == Replace(SubSeq(d_in, d_pos + 1, d_pos + n))
       IN /\ d_pos' = d_pos + n
          /\ d_out' = d_out \o buf
          /\ d_cr_chunk' = (d_cr_chunk \/ buf = << >>)
  /\ UNCHANGED << mainVars, poolVars, archVars, d_pc, d_src, d_in, d_first >>

D2uNext == D2uStep \/ D2uEof

D2uSpec == D2uInit /\ [][D2uNext]_vars

\* ---------------------------------------------------------------------------
\* Properties
\* ---------------------------------------------------------------------------

UnderMemory == usage[2] < memory_limit_bytes
UnderTime   == usage[1] < time_limit_ns

\* C1: a returned verdict has exactly one of the five statuses, chosen by
\* first match: memory usage >= memory limit gives MLE; else time usage >=
\* time limit gives TLE; else a nonzero exit status gives RE; else an
\* incorrect output gives WA; else AC.
C1_Precedence ==
  pc = "returned" =>
    /\ result.status \in Statuses
    /\ ~UnderMemory => result.status = STATUS_MEMORY_LIMIT_EXCEEDED
    /\ UnderMemory /\ ~UnderTime =>
         result.status = STATUS_TIME_LIMIT_EXCEEDED
    /\ UnderMemory /\ UnderTime /\ execute_status # 0 =>
         result.status = STATUS_RUNTIME_ERROR
    /\ UnderMemory /\ UnderTime /\ execute_status = 0 /\ ~correct =>
         result.status = STATUS_WRONG_ANSWER
    /\ UnderMemory /\ UnderTime /\ execute_status = 0 /\ correct =>
         result.status = STATUS_ACCEPTED

\* a run over both limits, exited abnormally, with wrong output, is MLE
C1_Witness ==
  /\ pc = "returned"
  /\ ~UnderMemory /\ ~UnderTime /\ execute_status # 0 /\ ~correct
  /\ result.status = STATUS_MEMORY_LIMIT_EXCEEDED

\* C2: the limit comparisons are "at or above": memory usage equal to the
\* memory limit is MLE, and with memory usage strictly below its limit a
\* time usage equal to the time limit is TLE, whatever the exit status and
\* the correctness flag are.
C2_Boundary ==
  pc = "returned" =>
    /\ usage[2] = memory_limit_bytes =>
         result.status = STATUS_MEMORY_LIMIT_EXCEEDED
    /\ UnderMemory /\ usage[1] = time_limit_ns =>
         result.status = STATUS_TIME_LIMIT_EXCEEDED

\* a clean, correct run whose time usage equals the time limit is TLE
C2_Witness ==
  /\ pc = "returned"
  /\ UnderMemory /\ usage[1] = time_limit_ns
  /\ execute_status = 0 /\ correct
  /\ result.status = STATUS_TIME_LIMIT_EXCEEDED

\* C3 as stated: in every returned verdict the score equals the configured
\* score if and only if the status is ACCEPTED.
C3_Original ==
  pc = "returned" =>
    (result.score = score <=> result.status = STATUS_ACCEPTED)

\* C3 as amended: an ACCEPTED verdict carries the configured score, a
\* verdict with any other status carries 0; so the score equals the
\* configured score only for ACCEPTED whenever the configured score is not 0.
C3_Score ==
  pc = "returned" =>
    /\ result.status = STATUS_ACCEPTED => result.score = score
    /\ result.status # STATUS_ACCEPTED => result.score = 0
    /\ score # 0 =>
         (result.score = score <=> result.status = STATUS_ACCEPTED)

C3_Witness ==
  /\ pc = "returned"
  /\ result.status = STATUS_ACCEPTED
  /\ score # 0 /\ result.score = score

ExecRunning == exec_pc \notin { "none", "exited", "failed" }
AuxRunning(a) == AuxPc(a) \notin { "none", "done", "failed" }

\* C4: judge classifies and concludes (returns or raises) only when none of
\* the five activities is still running.
C4_Barrier ==
  pc \in { "classify", "returned", "raised" } =>
    /\ ~ExecRunning
    /\ \A a \in Aux : ~AuxRunning(a)

\* C5: once the sandboxed program has exited on its own without having read
\* any of its stdin (whether or not it opened its end of the pipe), judge
\* eventually concludes.
C5_Original ==
  (exec_pc = "exited" /\ ~killed /\ stdin_read = 0) ~> Concluded

\* C6: whenever an auxiliary task has been started, and in particular when
\* it is blocked opening its pipe end, the execute task has been created
\* and has started or is able to start.
C6_ExecuteFirst ==
  (\E a \in Aux : AuxPc(a) # "none") =>
    /\ exec_pc # "none"
    /\ exec_pc = "scheduled" => ENABLED ExecStart

\* the feeder is blocked in open() before the execute task has run
C6_Witness ==
  /\ aux_end["stdin"] = "opening"
  /\ exec_pc = "scheduled"

\* C7: when judge has concluded a run whose pipes it created and whose
\* tasks it launched, every pipe has been opened by its reader and by its
\* writer, and both have terminated (closed their ends).
C7_Original ==
  Concluded /\ exec_pc # "none" =>
    \A p \in Pipes : child_end[p] = "closed" /\ aux_end[p] = "closed"

Failed(x) ==
  IF x = "execute" THEN exec_pc = "failed"
  ELSE IF x \in Aux THEN AuxPc(x) = "failed"
  ELSE FALSE

\* C8: a verdict is returned only when neither the execute call nor an
\* auxiliary activity failed; when the comparator, the monitor, the stderr
\* reader or the execute call has failed and judge concludes, it raises the
\* error of a failed activity and there is no verdict; a returned verdict
\* is one verdict tuple, and there is none before judge returns.
C8_FailureNotVerdict ==
  /\ pc \in { "classify", "returned" } =>
       \A x \in Aux \cup { "execute" } : ~Failed(x)
  /\ pc = "returned" => result # NoVerdict /\ result.status \in Statuses
  /\ pc # "returned" => result = NoVerdict
  /\ Concluded /\ (\E x \in { "do_stdout", "wait_cgroup", "read_pipe",
                              "execute" } : Failed(x)) =>
       /\ pc = "raised"
       /\ raised_by \in Aux \cup { "execute" }
       /\ Failed(raised_by)

\* the monitor crashed on a run with wrong output: judge raised
C8_Witness ==
  /\ pc = "raised"
  /\ raised_by = "wait_cgroup"
  /\ exec_pc = "exited" /\ stdout_pc = "done" /\ ~correct
  /\ result = NoVerdict

\* C9: a broken pipe met by the feeder is absorbed: do_stdin ends normally,
\* judge never raises an error of do_stdin, and a returned verdict is the
\* one determined by exit status, correctness flag and usage alone.
C9_BrokenPipeAbsorbed ==
  broken_pipe =>
    /\ stdin_pc = "done"
    /\ raised_by # "do_stdin"
    /\ pc = "returned" =>
         /\ result.status =
              Classify(execute_status, correct, usage[1], usage[2],
                       time_limit_ns, memory_limit_bytes, score).status
         /\ result.score =
              Classify(execute_status, correct, usage[1], usage[2],
                       time_limit_ns, memory_limit_bytes, score).score

\* input delivery ended early, the run is nevertheless ACCEPTED
C9_Witness ==
  /\ broken_pipe
  /\ stdin_written < InputLen
  /\ pc = "returned"
  /\ result.status = STATUS_ACCEPTED

LimitStatuses ==
  { STATUS_MEMORY_LIMIT_EXCEEDED, STATUS_TIME_LIMIT_EXCEEDED }

C11_StderrBounded ==
  /\ stderr <= MAX_STDERR_SIZE
  /\ pc = "returned" =>
       /\ result.stderr <= MAX_STDERR_SIZE
       /\ result.stderr = IF stderr_sent > MAX_STDERR_SIZE
                            THEN MAX_STDERR_SIZE ELSE stderr_sent
       /\ result.status =
            Classify(execute_status, correct, usage[1], usage[2],
                     time_limit_ns, memory_limit_bytes, score).status
       /\ result.score =
            Classify(execute_status, correct, usage[1], usage[2],
                     time_limit_ns, memory_limit_bytes, score).score
       /\ result.time_usage_ns = usage[1]
       /\ result.memory_usage_bytes = usage[2]
  /\ stderr_buf > 0 /\ child_end["stderr"] = "open" =>
       \/ aux_end["stderr"] = "closed"
       \/ ENABLED StderrRead
       \/ ENABLED StderrOpened

\* the program wrote more than the cap: the verdict is ACCEPTED and carries
\* exactly MAX_STDERR_SIZE bytes of stderr
C11_Witness ==
  /\ pc = "returned"
  /\ stderr_sent > MAX_STDERR_SIZE
  /\ result.stderr = MAX_STDERR_SIZE
  /\ result.status = STATUS_ACCEPTED

\* the package has been installed
Installed == pc # "install" /\ raised_by # "install"

\* a task of the run (the execute task or an auxiliary task) exists
Launched == exec_pc # "none" \/ \E a \in Aux : AuxPc(a) # "none"

\* C18: judge creates a pipe or the socket only after the package is
\* installed; it launches the execute task and the auxiliary tasks only
\* after the three pipes are created and the socket is bound and listening;
\* a pipe is opened, and the socket connected to, only when it exists; and
\* when in_dir already held one of the pipes, judge raises without ever
\* launching the executable.
C18_ProtocolOrder ==
  /\ created # {} => Installed
  /\ Launched =>
       /\ Files \subseteq created
       /\ cgroup_sock # "none"
  /\ pc = "gather" => cgroup_sock = "listening"
  /\ \A p \in Pipes :
       child_end[p] # "no" \/ aux_end[p] # "no" => p \in in_dir
  /\ connected => "cgroup" \in in_dir
  /\ (in_dir \ created) \cap Pipes # {} =>
       /\ ~Launched
       /\ pc \in { "install", "mkfifo_stdin", "mkfifo_stdout",
                   "mkfifo_stderr", "raised" }

\* in_dir already held stderr: judge created stdin and stdout, then raised
\* at the third mkfifo, nothing launched
C18_Witness ==
  /\ "stderr" \in in_dir \ created
  /\ { "stdin", "stdout" } \subseteq created
  /\ pc = "raised" /\ raised_by = "mkfifo"
  /\ ~Launched

\* C19: the socket is open while judge awaits the execute task or the
\* auxiliary tasks; it is closed once judge has returned a verdict or raised
\* the error of the execute task or of an auxiliary task; and the monitor
\* is accepting on the socket only while it is open.
C19_Original ==
  /\ pc \in { "await_execute", "await_others" } => cgroup_sock = "listening"
  /\ pc = "returned" => cgroup_sock = "closed"
  /\ pc = "raised" /\ raised_by \in Aux \cup { "execute" } =>
       cgroup_sock = "closed"
  /\ cgroup_pc = "accepting" => cgroup_sock = "listening"

\* C12: every run of judge that is started concludes, whatever the other
\* runs on the same loop do (a run on its own always concludes: it returns,
\* or raises the error of its execute task).
C12_Original ==
  \A r \in Runs : p_pc[r] = "idle" => <>PoolConcluded(r)

\* a run that is the only one on the loop concludes
PoolAlone ==
  \A r \in Runs :
    (p_pc[r] = "idle" /\ \A q \in Runs \ { r } : p_pc[q] = "absent")
      => <>PoolConcluded(r)

\* the record line the i-th yielded case was made of
LineOf(i) == g_lines[i + 1]

\* C13: the generator ends without an error only after it has yielded as
\* many cases as the first line of config.ini declares, and no case is made
\* of a record line of fewer than four columns.
C13_Original ==
  /\ g_pc = "done" => Len(g_cases) = g_count
  /\ \A i \in 1..Len(g_cases) : Len(LineOf(i)) >= 4

\* a record line of fewer than four columns among those read stops the
\* generator with ValueError
ShortLineFails ==
  \A k \in 1..(Len(g_lines) - 1) :
    Len(g_lines[k + 1]) < 4 =>
      /\ Len(g_cases) < k
      /\ g_pc = "done" => g_count < k

\* C14: when the generator raises a configuration error, the consumer has
\* judged no case of the archive.
C14_Original == g_pc = "failed" => g_judged = 0

YieldedCases ==
  /\ g_pc # "fresh" => Len(g_cases) <= g_count
  /\ g_pc = "done" /\ Len(g_lines) > g_count => Len(g_cases) = g_count
  /\ \A i \in 1..Len(g_cases) :
       /\ g_cases[i].score = ParseInt(LineOf(i)[4])
       /\ g_cases[i].time_limit_ns <= ParseMilli(LineOf(i)[3]) * 1000000
       /\ g_cases[i].time_limit_ns >= ParseMilli(LineOf(i)[3]) * 1000000 - 1
       /\ g_cases[i].memory_limit_bytes = MemOf(LineOf(i))
       /\ g_cases[i].process_limit = PROCESS_LIMIT
       /\ Len(LineOf(i)) < 5 =>
            g_cases[i].memory_limit_bytes = 268435456

EqIgnoreCase(a, b) ==
  /\ Len(a) = Len(b)
  /\ \A i \in 1..Len(a) : LowerChar(a[i]) = LowerChar(b[i])

\* some entry of the archive has the name a, ignoring case
HasEntry(a) == \E j \in DOMAIN g_names : EqIgnoreCase(g_names[j], a)

\* record line k names an input or an output that is not in the archive
NoMatch(k) ==
  /\ Len(g_lines[k + 1]) >= 4
  /\ \/ ~HasEntry(InputDir \o g_lines[k + 1][1])
     \/ ~HasEntry(OutputDir \o g_lines[k + 1][2])

\* C16: each yielded case opens entries of the archive, under their own
\* names, that equal input/<column 1> and output/<column 2> ignoring case;
\* a record line without such entries yields no case, and KeyError is
\* raised only when config.ini or the files of the next record line have no
\* entry ignoring case.
C16_Lookup ==
  /\ \A i \in 1..Len(g_cases) :
       /\ \E j \in DOMAIN g_names :
            /\ g_names[j] = g_cases[i].open_input
            /\ EqIgnoreCase(g_names[j], InputDir \o LineOf(i)[1])
       /\ \E j \in DOMAIN g_names :
            /\ g_names[j] = g_cases[i].open_output
            /\ EqIgnoreCase(g_names[j], OutputDir \o LineOf(i)[2])
  /\ \A k \in 1..(Len(g_lines) - 1) : NoMatch(k) => Len(g_cases) < k
  /\ g_err = "KeyError" =>
       \/ ~HasEntry(ConfigName)
       \/ /\ Len(g_lines) >= Len(g_cases) + 2
          /\ NoMatch(Len(g_cases) + 1)
  /\ ~HasEntry(ConfigName) /\ g_pc # "fresh" =>
       g_pc = "failed" /\ g_cases = << >>

\* a case was yielded whose input entry is not spelled as the manifest and
\* the lookup spell it
C16_Witness ==
  \E i \in 1..Len(g_cases) :
    /\ g_cases[i].open_input # InputDir \o LineOf(i)[1]
    /\ g_cases[i].open_input # InputKey(LineOf(i))

\* the bytes of s that are not carriage returns, in their order
RECURSIVE NoCR(_)
NoCR(s) ==
  IF s = << >> THEN << >>
  ELSE IF Head(s) = "CR" THEN NoCR(Tail(s))
  ELSE << Head(s) >> \o NoCR(Tail(s))

\* C17: whatever the chunks read, dos2unix has written the bytes read so far
\* without their carriage returns and in their order; at its end the output
\* is the whole source without carriage returns, and the run on that output
\* writes the same bytes again.
C17_StripsCR ==
  /\ d_pc = "pass1" => d_out = NoCR(SubSeq(d_src, 1, d_pos))
  /\ d_pc \in { "pass2", "done" } => d_first = NoCR(d_src)
  /\ d_pc = "pass2" => d_out = SubSeq(d_first, 1, d_pos)
  /\ d_pc = "done" => d_out = d_first

\* both runs are over, a chunk made only of carriage returns was read and
\* bytes after it were copied
C17_Witness ==
  /\ d_pc = "done"
  /\ d_cr_chunk
  /\ d_src # << >> /\ d_src[Len(d_src)] # "CR"
  /\ \E i \in 2..(Len(d_src) - 1) : d_src[i] = "CR" /\ d_src[i - 1] # "CR"

====
